---- MODULE Spec2Model ----
(***************************************************************************)
(* clean-claude: the rule catalog (src/utils/cleaningRules.ts), the hook   *)
(* useTextCleaner that folds the catalog over the input, the hook          *)
(* useTextStats, and the App component that owns the input text.           *)
(*                                                                         *)
(* A text is a sequence of UTF-16 code units.  A code unit is written as a *)
(* one-character string where TLA+ has one (" ", "|", "a", "\n") and by    *)
(* its name otherwise ("ESC" is U+001B, "U2502" is the box character       *)
(* U+2502).  JavaScript's regular expressions and string methods are       *)
(* modelled by what they do on such sequences.                             *)
(***************************************************************************)
EXTENDS Integers, Sequences, FiniteSets, TLC

VARIABLES inputText, cleanedText, memoInput, applied, threw, stats, cleaningRules

vars == <<inputText, cleanedText, memoInput, applied, threw, stats, cleaningRules>>

-----------------------------------------------------------------------------
(* Bounds of the model.                                                    *)

\* Longest text the user types, in code units.
MaxLen == 4

-----------------------------------------------------------------------------
(* Code units and the character classes of the regular expressions.        *)

NL == "\n"
CR == "\r"
SP == " "
TAB == "\t"
ESC == "ESC"
QUOTE == "\""
BACKSLASH == "\\"

\* \s of a JavaScript regular expression, and what String.prototype.trim
\* removes: white space and the line terminators.
WhiteSpace ==
    {" ", "\t", "\n", "\r", "\f", "VT", "U00A0", "U1680", "U2000", "U2001",
     "U2002", "U2003", "U2004", "U2005", "U2006", "U2007", "U2008", "U2009",
     "U200A", "U2028", "U2029", "U202F", "U205F", "U3000", "UFEFF"}

\* Where ^ and $ match under the m flag, and what . does not match.
LineTerminators == {"\n", "\r", "U2028", "U2029"}

\* The class of the box-only line filter (18 characters).
BoxLineClass ==
    {"U2500", "U2502", "U250C", "U2510", "U2514", "U2518", "U251C", "U2524",
     "U252C", "U2534", "U253C", "U256D", "U256E", "U256F", "U2570", "U2571",
     "U2572", "U2573"}

\* The class stripped at the start of a surviving line.
BoxLeadClass == {"U2502", "U251C", "U2570"}

\* The class stripped at the end of a surviving line.
BoxTrailClass == {"U2502", "U2524", "U256E", "U256F"}

\* The Unicode block "Box Drawing", U+2500..U+257F, as far as the model names
\* its characters: the 18 of BoxLineClass plus double-line and heavy forms.
BoxDrawingBlock ==
    BoxLineClass \cup {"U2550", "U2551", "U2554", "U2557", "U255A", "U255D", "U2501", "U2503"}

\* [0-9;] of the SGR pattern.
AnsiParamClass == {"0", "1", "2", "3", "4", "5", "6", "7", "8", "9", ";"}

\* [$>] of the prompt pattern.
PromptClass == {"$", ">"}

-----------------------------------------------------------------------------
(* String methods.                                                         *)

Drop(s, n) == SubSeq(s, n + 1, Len(s))

\* The index of the last code unit of the maximal white-space run that starts
\* at index i (i - 1 when s[i] is no white space or i is past the end).
WsRunEnd(s, i) ==
    CHOOSE j \in (i - 1)..Len(s) :
        /\ \A k \in i..j : s[k] \in WhiteSpace
        /\ (j = Len(s) \/ s[j + 1] \notin WhiteSpace)

\* The index of the first code unit of the maximal white-space run that ends
\* at index i (i + 1 when s[i] is no white space or i is 0).
WsRunStart(s, i) ==
    CHOOSE j \in 1..(i + 1) :
        /\ \A k \in j..i : s[k] \in WhiteSpace
        /\ (j = 1 \/ s[j - 1] \notin WhiteSpace)

\* ^ under the m flag: the start of the text or just after a line terminator.
AtLineStart(s, i) == i = 1 \/ s[i - 1] \in LineTerminators

\* $ under the m flag: the end of the text or just before a line terminator.
AtLineEnd(s, i) == i = Len(s) + 1 \/ s[i] \in LineTerminators

\* String.prototype.trim
Trim(s) ==
    LET a == WsRunEnd(s, 1) + 1
    IN  IF a > Len(s) THEN <<>> ELSE SubSeq(s, a, WsRunStart(s, Len(s)) - 1)

\* String.prototype.split with a one-unit separator.
RECURSIVE Split(_, _)
Split(s, sep) ==
    IF \E i \in 1..Len(s) : s[i] = sep
    THEN LET i == CHOOSE i \in 1..Len(s) :
                    s[i] = sep /\ \A j \in 1..(i - 1) : s[j] # sep
         IN  <<SubSeq(s, 1, i - 1)>> \o Split(Drop(s, i), sep)
    ELSE <<s>>

\* Array.prototype.join with a one-unit separator.
RECURSIVE Join(_, _)
Join(lines, sep) ==
    IF Len(lines) = 0 THEN <<>>
    ELSE IF Len(lines) = 1 THEN lines[1]
    ELSE lines[1] \o <<sep>> \o Join(Tail(lines), sep)

-----------------------------------------------------------------------------
(* Rule 1: Remove box drawing.                                             *)

\* The filter's pattern without its anchors, /[...]+/: a box character
\* anywhere in the line.
IsBoxOnlyLineUnanchored(line) == \E i \in 1..Len(line) : line[i] \in BoxLineClass

\* line.match(/^[...]+$/)
IsBoxOnlyLine(line) ==
    Len(line) >= 1 /\ \A i \in 1..Len(line) : line[i] \in BoxLineClass

\* The leading pattern with the class repeated, /^[U+2502 U+251C U+2570\s]*/:
\* every leading frame character and white space.
RECURSIVE StripLeadBoxAll(_)
StripLeadBoxAll(line) ==
    IF Len(line) >= 1 /\ (line[1] \in BoxLeadClass \/ line[1] \in WhiteSpace)
    THEN StripLeadBoxAll(Tail(line))
    ELSE line

\* line.replace(/^[U+2502 U+251C U+2570]\s*/, '')
StripLeadBox(line) ==
    IF Len(line) >= 1 /\ line[1] \in BoxLeadClass
    THEN Drop(line, WsRunEnd(line, 2))
    ELSE line

\* line.replace(/\s*[U+2502 U+2524 U+256E U+256F]$/, '')
StripTrailBox(line) ==
    IF Len(line) >= 1 /\ line[Len(line)] \in BoxTrailClass
    THEN SubSeq(line, 1, WsRunStart(line, Len(line) - 1) - 1)
    ELSE line

BoxLineMap(line) == StripTrailBox(StripLeadBox(line))

\* text.split('\n').filter(line => !line.match(...))
SurvivingLines(text) == SelectSeq(Split(text, NL), LAMBDA l : ~IsBoxOnlyLine(l))

RemoveBoxDrawing(text) ==
    LET lines == SurvivingLines(text)
    IN  Join([i \in 1..Len(lines) |-> BoxLineMap(lines[i])], NL)

-----------------------------------------------------------------------------
(* JSON.parse and JSON.stringify, as far as rule 2 uses them.              *)

\* A construct of the JSON grammar the model does not decode (objects,
\* negative, fractional and exponent numbers, \u escapes, numbers too long
\* for a double): evaluating it stops the check instead of guessing.
Unsupported == CHOOSE x \in {} : TRUE

JsonWs == {" ", "\t", "\n", "\r"}
JsonDigits == {"0", "1", "2", "3", "4", "5", "6", "7", "8", "9"}
ControlChars == {"\t", "\n", "\r", "\f", "VT", "ESC", "BS"}
JsonLiterals == << <<"t", "r", "u", "e">>, <<"f", "a", "l", "s", "e">>, <<"n", "u", "l", "l">> >>

JsonFail == [ok |-> FALSE, t |-> "none", s |-> <<>>, items |-> <<>>, next |-> 0]
JsonOk(t, s, items, next) == [ok |-> TRUE, t |-> t, s |-> s, items |-> items, next |-> next]
JsonValue(r) == [t |-> r.t, s |-> r.s, items |-> r.items]

\* The first index at or after i that holds no JSON white space.
SkipJsonWs(s, i) ==
    CHOOSE j \in i..(Len(s) + 1) :
        /\ \A k \in i..(j - 1) : s[k] \in JsonWs
        /\ (j = Len(s) + 1 \/ s[j] \notin JsonWs)

\* The last index of the digit run that starts at i.
DigitRunEnd(s, i) ==
    CHOOSE j \in i..Len(s) :
        /\ \A k \in i..j : s[k] \in JsonDigits
        /\ (j = Len(s) \/ s[j + 1] \notin JsonDigits)

\* A number at index i (s[i] is a digit): 0, or a digit run without a
\* leading 0.
ParseNumber(s, i) ==
    LET j == IF s[i] = "0" THEN i ELSE DigitRunEnd(s, i)
    IN  IF j + 1 <= Len(s) /\ s[j + 1] \in {".", "e", "E"} THEN Unsupported
        ELSE IF j - i + 1 > 15 THEN Unsupported
        ELSE JsonOk("num", SubSeq(s, i, j), <<>>, j + 1)

\* The code unit a simple escape stands for, or "" when e is none.
Unescape(e) ==
    CASE e = "\"" -> "\"" [] e = "\\" -> "\\" [] e = "/" -> "/"
      [] e = "n" -> "\n" [] e = "t" -> "\t" [] e = "r" -> "\r"
      [] e = "f" -> "\f" [] e = "b" -> "BS" [] OTHER -> ""

\* The rest of a string whose opening quote precedes index i.
RECURSIVE ParseString(_, _, _)
ParseString(s, i, acc) ==
    IF i > Len(s) THEN JsonFail
    ELSE IF s[i] = QUOTE THEN JsonOk("str", acc, <<>>, i + 1)
    ELSE IF s[i] = BACKSLASH
    THEN IF i + 1 > Len(s) THEN JsonFail
         ELSE IF s[i + 1] = "u" THEN Unsupported
         ELSE IF Unescape(s[i + 1]) = "" THEN JsonFail
         ELSE ParseString(s, i + 2, Append(acc, Unescape(s[i + 1])))
    ELSE IF s[i] \in ControlChars THEN JsonFail
    ELSE ParseString(s, i + 1, Append(acc, s[i]))

LiteralAt(s, i, w) ==
    i + Len(w) - 1 <= Len(s) /\ \A k \in 1..Len(w) : s[i + k - 1] = w[k]

RECURSIVE ParseValue(_, _)
RECURSIVE ParseItems(_, _, _)

\* A JSON value at index i0, after white space.
ParseValue(s, i0) ==
    LET i == SkipJsonWs(s, i0)
    IN  IF i > Len(s) THEN JsonFail
        ELSE IF s[i] = "["
        THEN LET j == SkipJsonWs(s, i + 1)
             IN  IF j <= Len(s) /\ s[j] = "]"
                 THEN JsonOk("arr", <<>>, <<>>, j + 1)
                 ELSE ParseItems(s, i + 1, <<>>)
        ELSE IF s[i] = QUOTE THEN ParseString(s, i + 1, <<>>)
        ELSE IF s[i] \in JsonDigits THEN ParseNumber(s, i)
        ELSE IF s[i] \in {"-", "{"} THEN Unsupported
        ELSE IF \E n \in 1..3 : LiteralAt(s, i, JsonLiterals[n])
        THEN LET n == CHOOSE n \in 1..3 : LiteralAt(s, i, JsonLiterals[n])
             IN  JsonOk("lit", JsonLiterals[n], <<>>, i + Len(JsonLiterals[n]))
        ELSE JsonFail

\* The elements of an array from index i on, acc holding those before.
ParseItems(s, i, acc) ==
    LET After(v, j) ==
            IF ~v.ok \/ j > Len(s) THEN JsonFail
            ELSE IF s[j] = "," THEN ParseItems(s, j + 1, Append(acc, JsonValue(v)))
            ELSE IF s[j] = "]" THEN JsonOk("arr", <<>>, Append(acc, JsonValue(v)), j + 1)
            ELSE JsonFail
        Element(v) == After(v, IF v.ok THEN SkipJsonWs(s, v.next) ELSE 0)
    IN  Element(ParseValue(s, i))

\* JSON.parse: one value and nothing but white space after it.  ok is FALSE
\* where JSON.parse throws a SyntaxError.
JsonParse(s) ==
    LET Whole(r) == IF r.ok /\ SkipJsonWs(s, r.next) > Len(s) THEN r ELSE JsonFail
    IN  Whole(ParseValue(s, 1))

\* The escaped form of a string's code units.
RECURSIVE EscapeString(_)
EscapeString(s) ==
    IF Len(s) = 0 THEN <<>>
    ELSE (CASE s[1] = "\"" -> <<"\\", "\"">>
            [] s[1] = "\\" -> <<"\\", "\\">>
            [] s[1] = "\n" -> <<"\\", "n">>
            [] s[1] = "\t" -> <<"\\", "t">>
            [] s[1] = "\r" -> <<"\\", "r">>
            [] s[1] = "\f" -> <<"\\", "f">>
            [] s[1] = "BS" -> <<"\\", "b">>
            [] OTHER -> <<s[1]>>) \o EscapeString(Tail(s))

\* The indentation of JSON.stringify(value, null, 4): twice as wide.
SpacesDoubled(n) == [k \in 1..(2 * n) |-> SP]

Spaces(n) == [k \in 1..n |-> SP]

RECURSIVE Stringify(_, _)
RECURSIVE StringifyItems(_, _)

\* JSON.stringify(value, null, 2) of a value nested depth arrays deep.
Stringify(v, depth) ==
    CASE v.t = "num" -> v.s
      [] v.t = "lit" -> v.s
      [] v.t = "str" -> <<QUOTE>> \o EscapeString(v.s) \o <<QUOTE>>
      [] v.t = "arr" ->
            IF Len(v.items) = 0 THEN <<"[", "]">>
            ELSE <<"[", NL>> \o StringifyItems(v.items, depth + 1)
                 \o <<NL>> \o Spaces(2 * depth) \o <<"]">>

StringifyItems(items, depth) ==
    Spaces(2 * depth) \o Stringify(items[1], depth)
    \o (IF Len(items) = 1 THEN <<>> ELSE <<",", NL>> \o StringifyItems(Tail(items), depth))

-----------------------------------------------------------------------------
(* Rule 2: Clean JSON arrays.                                              *)

TemplateSuffixes ==
    <<"t", "e", "m", "p", "l", "a", "t", "e", "_", "s", "u", "f", "f", "i", "x", "e", "s">>

\* s.replace(/ab/g, repl) for the two-unit pattern a b.
RECURSIVE ReplacePair(_, _, _, _)
ReplacePair(s, a, b, repl) ==
    IF Len(s) = 0 THEN <<>>
    ELSE IF Len(s) >= 2 /\ s[1] = a /\ s[2] = b
    THEN repl \o ReplacePair(Drop(s, 2), a, b, repl)
    ELSE <<s[1]>> \o ReplacePair(Tail(s), a, b, repl)

\* jsonContent.replace(/^"/, '').replace(/"$/, '')
StripWrappingQuotes(s) ==
    LET a == IF Len(s) >= 1 /\ s[1] = QUOTE THEN Tail(s) ELSE s
    IN  IF Len(a) >= 1 /\ a[Len(a)] = QUOTE THEN SubSeq(a, 1, Len(a) - 1) ELSE a

\* The three replaces of the try block.
CleanJsonText(jsonContent) ==
    ReplacePair(ReplacePair(StripWrappingQuotes(jsonContent),
                            BACKSLASH, QUOTE, <<QUOTE>>),
                QUOTE, QUOTE, <<QUOTE>>)

\* The catch block without its last two replaces: the quotes un-escaped, the
\* quotes at the brackets left.
JsonFallbackUnescapeOnly(match) ==
    ReplacePair(ReplacePair(match, BACKSLASH, QUOTE, <<QUOTE>>), QUOTE, QUOTE, <<QUOTE>>)

\* The catch block: the four replaces on the whole match.
JsonFallback(match) ==
    ReplacePair(ReplacePair(ReplacePair(ReplacePair(match,
        BACKSLASH, QUOTE, <<QUOTE>>), QUOTE, QUOTE, <<QUOTE>>),
        QUOTE, "[", <<"[">>), "]", QUOTE, <<"]">>)

\* The replacer without its try and catch: the SyntaxError leaves it.
JsonReplacerNoCatch(match, prefix, jsonContent) ==
    LET Labelled(formatted) ==
            IF prefix # <<>> THEN Trim(prefix) \o <<":", SP>> \o formatted
            ELSE formatted
        Try(parsed) ==
            IF parsed.ok
            THEN [threw |-> FALSE, text |-> Labelled(Stringify(JsonValue(parsed), 0))]
            ELSE [threw |-> TRUE, text |-> <<>>]
    IN  Try(JsonParse(CleanJsonText(jsonContent)))

\* What the replacer function returns, or throws.  prefix is <<>> when
\* group 1 took no part in the match (undefined).
JsonReplacer(match, prefix, jsonContent) ==
    LET Labelled(formatted) ==
            IF prefix # <<>> THEN Trim(prefix) \o <<":", SP>> \o formatted
            ELSE formatted
        Try(parsed) ==
            IF parsed.ok
            THEN [threw |-> FALSE, text |-> Labelled(Stringify(JsonValue(parsed), 0))]
            ELSE [threw |-> FALSE, text |-> JsonFallback(match)]
    IN  Try(JsonParse(CleanJsonText(jsonContent)))

\* The index of the first line end at or after i (Len(s) + 1 at the end).
LineEnd(s, i) ==
    CHOOSE e \in i..(Len(s) + 1) :
        AtLineEnd(s, e) /\ \A k \in i..(e - 1) : ~AtLineEnd(s, k)

\* line matches \[?"?\[.*?\]"?\]? as a whole.
IsArrayPattern(line) ==
    \E head \in {<<"[", QUOTE, "[">>, <<"[", "[">>, <<QUOTE, "[">>, <<"[">>} :
    \E tail \in {<<"]", QUOTE, "]">>, <<"]", "]">>, <<"]", QUOTE>>, <<"]">>} :
        /\ Len(line) >= Len(head) + Len(tail)
        /\ SubSeq(line, 1, Len(head)) = head
        /\ SubSeq(line, Len(line) - Len(tail) + 1, Len(line)) = tail

\* The index where group 2 starts when group 1, \s*template_suffixes\s*,
\* matches at index i, or 0.
PrefixEnd(s, i) ==
    LET a == WsRunEnd(s, i) + 1
    IN  IF LiteralAt(s, a, TemplateSuffixes)
        THEN WsRunEnd(s, a + Len(TemplateSuffixes)) + 1
        ELSE 0

\* The match of the rule's pattern at index i: group 2 starts at json and
\* the match ends before index end; json is 0 when there is no match.
JsonMatchAt(s, i) ==
    LET b == PrefixEnd(s, i)
    IN  IF ~AtLineStart(s, i) THEN [json |-> 0, end |-> 0]
        ELSE IF b # 0 /\ b <= Len(s) /\ IsArrayPattern(SubSeq(s, b, LineEnd(s, b) - 1))
        THEN [json |-> b, end |-> LineEnd(s, b)]
        ELSE IF IsArrayPattern(SubSeq(s, i, LineEnd(s, i) - 1))
        THEN [json |-> i, end |-> LineEnd(s, i)]
        ELSE [json |-> 0, end |-> 0]

\* text.replace(/^(\s*template_suffixes\s*)?(\[?"?\[.*?\]"?\]?)$/gm, replacer),
\* scanning from index i.
RECURSIVE ReplaceJsonFrom(_, _)
ReplaceJsonFrom(s, i) ==
    LET Glue(r, rest) ==
            IF r.threw \/ rest.threw THEN [threw |-> TRUE, text |-> <<>>]
            ELSE [threw |-> FALSE, text |-> r.text \o rest.text]
        Replace(m) ==
            IF m.json # 0
            THEN Glue(JsonReplacer(SubSeq(s, i, m.end - 1),
                                   SubSeq(s, i, m.json - 1),
                                   SubSeq(s, m.json, m.end - 1)),
                      ReplaceJsonFrom(s, m.end))
            ELSE Glue([threw |-> FALSE, text |-> <<s[i]>>], ReplaceJsonFrom(s, i + 1))
    IN  IF i > Len(s) THEN [threw |-> FALSE, text |-> <<>>]
        ELSE Replace(JsonMatchAt(s, i))

CleanJsonArrays(text) == ReplaceJsonFrom(text, 1)

-----------------------------------------------------------------------------
(* Rule 3: Remove pipe symbols.                                            *)

\* The leading pattern as /^[\s|]*/: every leading pipe and white space.
RECURSIVE StripLeadPipeAll(_)
StripLeadPipeAll(line) ==
    IF Len(line) >= 1 /\ (line[1] = "|" \/ line[1] \in WhiteSpace)
    THEN StripLeadPipeAll(Tail(line))
    ELSE line

\* line.replace(/^\s*\|\s*/, '')
StripLeadPipe(line) ==
    LET p == WsRunEnd(line, 1) + 1
    IN  IF p <= Len(line) /\ line[p] = "|"
        THEN Drop(line, WsRunEnd(line, p + 1))
        ELSE line

\* line.replace(/\s*\|\s*$/, '')
StripTrailPipe(line) ==
    LET p == WsRunStart(line, Len(line)) - 1
    IN  IF p >= 1 /\ line[p] = "|"
        THEN SubSeq(line, 1, WsRunStart(line, p - 1) - 1)
        ELSE line

\* The map callback with its first replace alone.
PipeLineMapLeadOnly(line) == StripLeadPipe(line)

PipeLineMap(line) == StripTrailPipe(StripLeadPipe(line))

RemovePipeSymbols(text) ==
    LET lines == Split(text, NL)
    IN  Join([i \in 1..Len(lines) |-> PipeLineMap(lines[i])], NL)

-----------------------------------------------------------------------------
(* Rule 4: Fix indentation.                                                *)

\* line.replace(/\s+/g, ' ')
\* A collapse that writes two spaces per run, line.replace(/\s+/g, '  ').
RECURSIVE CollapseWsTwo(_)
CollapseWsTwo(s) ==
    IF Len(s) = 0 THEN <<>>
    ELSE IF s[1] \in WhiteSpace
    THEN <<SP, SP>> \o CollapseWsTwo(Drop(s, WsRunEnd(s, 1)))
    ELSE <<s[1]>> \o CollapseWsTwo(Tail(s))

RECURSIVE CollapseWs(_)
CollapseWs(s) ==
    IF Len(s) = 0 THEN <<>>
    ELSE IF s[1] \in WhiteSpace THEN <<SP>> \o CollapseWs(Drop(s, WsRunEnd(s, 1)))
    ELSE <<s[1]>> \o CollapseWs(Tail(s))

\* The map callback without its trim: line.replace(/\s+/g, ' ')
IndentLineMapNoTrim(line) == CollapseWs(line)

IndentLineMap(line) == Trim(CollapseWs(line))

FixIndentation(text) ==
    LET lines == Split(text, NL)
    IN  Join([i \in 1..Len(lines) |-> IndentLineMap(lines[i])], NL)

-----------------------------------------------------------------------------
(* Rule 5: Remove terminal artifacts.                                      *)

\* The index of the "m" that ends an SGR sequence starting at index i
\* (ESC, "[", any [0-9;], "m"), or 0 when none starts there.
AnsiEnd(s, i) ==
    IF i + 1 <= Len(s) /\ s[i] = ESC /\ s[i + 1] = "["
    THEN LET j == CHOOSE j \in (i + 1)..Len(s) :
                      /\ \A k \in (i + 2)..j : s[k] \in AnsiParamClass
                      /\ (j = Len(s) \/ s[j + 1] \notin AnsiParamClass)
         IN  IF j + 1 <= Len(s) /\ s[j + 1] = "m" THEN j + 1 ELSE 0
    ELSE 0

\* text.replace(/\x1b\[[0-9;]*m/g, ''), scanning from index i.
RECURSIVE RemoveAnsiFrom(_, _)
RemoveAnsiFrom(s, i) ==
    IF i > Len(s) THEN <<>>
    ELSE IF AnsiEnd(s, i) # 0 THEN RemoveAnsiFrom(s, AnsiEnd(s, i) + 1)
    ELSE <<s[i]>> \o RemoveAnsiFrom(s, i + 1)

RemoveAnsi(text) == RemoveAnsiFrom(text, 1)

\* text.replace(/^[$>]\s*/gm, ''), scanning from index i.
RECURSIVE RemovePromptsFrom(_, _)
RemovePromptsFrom(s, i) ==
    IF i > Len(s) THEN <<>>
    ELSE IF AtLineStart(s, i) /\ s[i] \in PromptClass
    THEN RemovePromptsFrom(s, WsRunEnd(s, i + 1) + 1)
    ELSE <<s[i]>> \o RemovePromptsFrom(s, i + 1)

\* The prompt pattern without its anchor and its white space, /[$>]/g: every
\* prompt character, wherever it stands.
RemovePromptsUnanchored(text) == SelectSeq(text, LAMBDA c : c \notin PromptClass)

RemovePrompts(text) == RemovePromptsFrom(text, 1)

\* The i flag: ASCII letters compare by their lower-case form.
ToLower(c) ==
    CASE c = "A" -> "a" [] c = "B" -> "b" [] c = "C" -> "c" [] c = "D" -> "d"
      [] c = "E" -> "e" [] c = "H" -> "h" [] c = "L" -> "l" [] c = "M" -> "m"
      [] c = "O" -> "o" [] c = "P" -> "p" [] c = "R" -> "r" [] c = "S" -> "s"
      [] c = "W" -> "w" [] OTHER -> c

\* The alternatives of (bash|sh|cmd|powershell), in the pattern's order.
ShellLabels ==
    << <<"b", "a", "s", "h">>, <<"s", "h">>, <<"c", "m", "d">>,
       <<"p", "o", "w", "e", "r", "s", "h", "e", "l", "l">> >>

\* Label w followed by ":" stands at index i, letter case ignored.
LabelAt(s, i, w) ==
    /\ i + Len(w) <= Len(s)
    /\ \A k \in 1..Len(w) : ToLower(s[i + k - 1]) = w[k]
    /\ s[i + Len(w)] = ":"

\* The index of the ":" of the shell label matched at index i, or 0.
LabelEnd(s, i) ==
    IF \E n \in 1..Len(ShellLabels) : LabelAt(s, i, ShellLabels[n])
    THEN LET n == CHOOSE n \in 1..Len(ShellLabels) :
                      /\ LabelAt(s, i, ShellLabels[n])
                      /\ \A m \in 1..(n - 1) : ~LabelAt(s, i, ShellLabels[m])
         IN  i + Len(ShellLabels[n])
    ELSE 0

\* text.replace(/^(bash|sh|cmd|powershell):\s*/gim, ''), scanning from index i.
RECURSIVE RemoveLabelsFrom(_, _)
RemoveLabelsFrom(s, i) ==
    IF i > Len(s) THEN <<>>
    ELSE IF AtLineStart(s, i) /\ LabelEnd(s, i) # 0
    THEN RemoveLabelsFrom(s, WsRunEnd(s, LabelEnd(s, i) + 1) + 1)
    ELSE <<s[i]>> \o RemoveLabelsFrom(s, i + 1)

RemoveLabels(text) == RemoveLabelsFrom(text, 1)

\* The three substitutions with the last two exchanged: labels, then prompts.
RemoveTerminalArtifactsLabelsFirst(text) ==
    RemovePrompts(RemoveLabels(RemoveAnsi(text)))

RemoveTerminalArtifacts(text) == RemoveLabels(RemovePrompts(RemoveAnsi(text)))

-----------------------------------------------------------------------------
(* Rule 6: Clean extra blank lines.                                        *)

\* The match of the pattern without its \s*, /\n\n\n/: three newlines in a
\* row and no more.
BlankRunEndPlain(s, i) ==
    IF i + 2 <= Len(s) /\ \A k \in i..(i + 2) : s[k] = NL THEN i + 2 ELSE 0

\* The match of the pattern with lazy quantifiers, /\n\s*?\n\s*?\n/: it ends
\* at the third newline of the white-space run.
BlankRunEndLazy(s, i) ==
    LET e  == WsRunEnd(s, i)
        nl == {k \in i..e : s[k] = NL}
    IN  IF i <= Len(s) /\ s[i] = NL /\ Cardinality(nl) >= 3
        THEN CHOOSE k \in nl : Cardinality({m \in nl : m <= k}) = 3
        ELSE 0

\* The index of the last "\n" of the match of /\n\s*\n\s*\n/ that starts at
\* index i, or 0 when the pattern does not match there: the white-space run
\* starting at i must hold three newlines, and the greedy \s* reach its last.
BlankRunEnd(s, i) ==
    LET e  == WsRunEnd(s, i)
        nl == {k \in i..e : s[k] = NL}
    IN  IF i <= Len(s) /\ s[i] = NL /\ Cardinality(nl) >= 3
        THEN CHOOSE k \in nl : \A m \in nl : m <= k
        ELSE 0

\* text.replace(/\n\s*\n\s*\n/g, '\n\n'), scanning from index i.
RECURSIVE CollapseBlankFrom(_, _)
CollapseBlankFrom(s, i) ==
    IF i > Len(s) THEN <<>>
    ELSE IF BlankRunEnd(s, i) # 0
    THEN <<NL, NL>> \o CollapseBlankFrom(s, BlankRunEnd(s, i) + 1)
    ELSE <<s[i]>> \o CollapseBlankFrom(s, i + 1)

CleanExtraBlankLines(text) == CollapseBlankFrom(text, 1)

-----------------------------------------------------------------------------
(* Rule 7: Trim whitespace.                                                *)

\* text.trimStart(): the white space at the start only.
TrimWhitespaceStart(text) == Drop(text, WsRunEnd(text, 1))

\* A trim of spaces alone, text.replace(/^ +| +$/g, '').
TrimWhitespaceSpacesOnly(text) ==
    LET NotSp == {i \in 1..Len(text) : text[i] # SP}
    IN  IF NotSp = {} THEN <<>>
        ELSE SubSeq(text, CHOOSE i \in NotSp : \A j \in NotSp : i <= j,
                          CHOOSE i \in NotSp : \A j \in NotSp : j <= i)

TrimWhitespace(text) == Trim(text)

-----------------------------------------------------------------------------
(* The catalog and the hooks.                                              *)

\* The names of the catalog's rules, in the order of the array literal.
RuleNames ==
    <<"Remove box drawing", "Clean JSON arrays", "Remove pipe symbols",
      "Fix indentation", "Remove terminal artifacts", "Clean extra blank lines",
      "Trim whitespace">>

\* The values null and undefined, which are no texts: one-element tuples
\* holding a marker no text holds.
Null == <<"null">>
Undefined == <<"undefined">>
Absent == {Null, Undefined}

Return(text) == [threw |-> FALSE, text |-> text]
Throw == [threw |-> TRUE, text |-> <<>>]

\* rule.apply(text) of the rule called name.  Every apply starts with a
\* method call on text (split, replace, trim), a TypeError on null and
\* undefined.
ApplyRule(name, text) ==
    IF text \in Absent THEN Throw
    ELSE CASE name = "Remove box drawing"        -> Return(RemoveBoxDrawing(text))
           [] name = "Clean JSON arrays"         -> CleanJsonArrays(text)
           [] name = "Remove pipe symbols"       -> Return(RemovePipeSymbols(text))
           [] name = "Fix indentation"           -> Return(FixIndentation(text))
           [] name = "Remove terminal artifacts" -> Return(RemoveTerminalArtifacts(text))
           [] name = "Clean extra blank lines"   -> Return(CleanExtraBlankLines(text))
           [] name = "Trim whitespace"           -> Return(TrimWhitespace(text))

\* The loop with every rule applied to the text it was entered with, as
\* cleaned = rule.apply(input) would do.
RunRulesOnInput(rules, cleaned, done) ==
    IF Len(rules) = 0 THEN [threw |-> FALSE, value |-> cleaned, applied |-> done]
    ELSE [threw   |-> FALSE,
          value   |-> ApplyRule(rules[Len(rules)], cleaned).text,
          applied |-> done \o rules]

\* The for loop of useTextCleaner over the rules left, done naming the rules
\* already invoked.
RECURSIVE RunRules(_, _, _)
RunRules(rules, cleaned, done) ==
    LET Assign(r) ==
            IF r.threw
            THEN [threw |-> TRUE, value |-> <<>>, applied |-> Append(done, Head(rules))]
            ELSE RunRules(Tail(rules), r.text, Append(done, Head(rules)))
    IN  IF Len(rules) = 0 THEN [threw |-> FALSE, value |-> cleaned, applied |-> done]
        ELSE Assign(ApplyRule(Head(rules), cleaned))

\* !input
Falsy(input) == input = <<>> \/ input \in Absent

\* The memoized function without its first line, if (!input) return ''.
CleanerBodyNoGuard(input, rules) == RunRules(rules, input, <<>>)

\* The function useTextCleaner memoizes: what it returns for input with the
\* catalog as it is, the rules it invoked, and whether it threw.
CleanerBody(input, rules) ==
    IF Falsy(input) THEN [threw |-> FALSE, value |-> <<>>, applied |-> <<>>]
    ELSE RunRules(rules, input, <<>>)

\* The statistics with the newlines counted for the lines.
TextStatsNewlines(original, cleaned) ==
    [lines      |-> Len(Split(original, NL)) - 1,
     characters |-> Len(original),
     cleaned    |-> Len(original) - Len(cleaned)]

\* The function useTextStats memoizes.
TextStats(original, cleaned) ==
    [lines      |-> Len(Split(original, NL)),
     characters |-> Len(original),
     cleaned    |-> Len(original) - Len(cleaned)]

-----------------------------------------------------------------------------
(* The texts of the model.                                                 *)

\* The alphabets a typed text is drawn from: a text holds code units of one
\* of them.
Alphabets ==
    { {"U2500", "U2502", "U2524", "a", " ", "\n"},
      {"U251C", "U2524", "a", " "},
      {"|", "a", " ", "\n"},
      {"$", ">", "a", " ", "\n"},
      {"[", "]", "\"", "1", ",", "\\"},
      {"ESC", "[", "1", "m", "a", " "},
      {"ESC", "[", "m", "$", "a"},
      {"$", "s", "h", ":", "a"},
      {"|", "U2502", "$", "a", " "},
      {" ", "\t", "\n"} }

Keys == UNION Alphabets

\* Texts the clipboard may hold when Paste is pressed.
ClipboardTexts ==
    { <<"U2550", "U2550", "U2550">>,
      <<"|", " ", " ", "|", " ", " ", "|">>,
      <<"a", "\n", "\n", "\n", "\n", "b">>,
      <<"a", "\n", " ", "\n", "\n", "b">>,
      <<"ESC", "ESC", "[", "m", "[", "m">>,
      <<"[", "\\", "\\", "\"", "]">>,
      <<"a", "\t", " ", "b", "\r", "\n", "\t", "c">>,
      <<"a", " ", "ESC", "[", "m", " ", "a">> }

-----------------------------------------------------------------------------
(* The App component.                                                      *)

TypeOK ==
    /\ threw \in BOOLEAN
    /\ cleaningRules \in Seq({RuleNames[i] : i \in 1..Len(RuleNames)})

\* After the first render: useState('') and the two hooks on ''.
Init ==
    /\ inputText = <<>>
    /\ memoInput = <<>>
    /\ cleanedText = <<>>
    /\ applied = <<>>
    /\ threw = FALSE
    /\ stats = TextStats(<<>>, <<>>)
    /\ cleaningRules = RuleNames

\* A render of the hook with an empty dependency list, useMemo(..., []): the
\* function ran at the first render and never runs again.
RenderCleanerStale(t) ==
    /\ inputText' = t
    /\ UNCHANGED <<cleanedText, memoInput, applied, threw>>

\* The memoized function on each clipboard text, under the catalog in its
\* order: a table of values of CleanerBody.
ClipboardResults == [t \in ClipboardTexts |-> CleanerBody(t, RuleNames)]

\* The value the memoized function returns for t, looked up in the table
\* where the table holds it.
HookResult(t) ==
    IF cleaningRules = RuleNames /\ t \in ClipboardTexts
    THEN ClipboardResults[t]
    ELSE CleanerBody(t, cleaningRules)

\* A render of useTextCleaner(t): useMemo runs its function when t is not
\* the dependency of the last run.
RenderCleaner(t) ==
    LET Memoize(r) ==
            /\ threw' = r.threw
            /\ applied' = r.applied
            /\ IF r.threw
               THEN UNCHANGED <<cleanedText, memoInput>>
               ELSE cleanedText' = r.value /\ memoInput' = t
    IN  /\ inputText' = t
        /\ IF t = memoInput
           THEN UNCHANGED <<cleanedText, memoInput, applied, threw>>
           ELSE Memoize(HookResult(t))

\* The catalog after cleaningRules.reverse().map(...), which reverses the
\* array in place.
RulesInfoReversing(rules) == [i \in 1..Len(rules) |-> rules[Len(rules) + 1 - i]]

\* The catalog after RulesInfo rendered it: cleaningRules.map reads the array
\* and builds a new one.
RulesInfo(rules) == rules

\* A render of App after setInputText(t): useTextCleaner, then useTextStats
\* on the input and the cleaned text, then RulesInfo, which reads the catalog.
RenderApp(t) ==
    /\ RenderCleaner(t)
    /\ stats' = IF threw' THEN stats ELSE TextStats(t, cleanedText')
    /\ cleaningRules' = RulesInfo(cleaningRules)

\* onChange of the input panel: a key appends one code unit.
OnChange ==
    \E c \in Keys :
        /\ inputText \notin Absent
        /\ Len(inputText) < MaxLen
        /\ \E A \in Alphabets : c \in A /\ \A i \in 1..Len(inputText) : inputText[i] \in A
        /\ RenderApp(Append(inputText, c))

\* handlePaste: the clipboard's text becomes the input.
HandlePaste ==
    \E text \in ClipboardTexts :
        /\ RenderApp(text)
        /\ inputText' = text

\* handleClear
HandleClear ==
    /\ RenderApp(<<>>)
    /\ inputText' = <<>>

\* A render with the input unchanged.
Rerender == inputText \notin Absent /\ RenderApp(inputText)

\* The hook rendered alone with null or undefined for its input, as the
\* hook's tests do.
RenderHookAbsent ==
    \E v \in Absent : RenderCleaner(v) /\ UNCHANGED <<stats, cleaningRules>>

Next == OnChange \/ HandlePaste \/ HandleClear \/ Rerender \/ RenderHookAbsent

Spec == Init /\ [][Next]_vars

-----------------------------------------------------------------------------
(* Properties of the pipeline.                                             *)

IsString(v) == v \notin Absent

\* The seven rules composed by hand, in catalog order.
Composed(text) ==
    TrimWhitespace(CleanExtraBlankLines(RemoveTerminalArtifacts(FixIndentation(
        RemovePipeSymbols(CleanJsonArrays(RemoveBoxDrawing(text)).text)))))

(* C1: for the empty string, null and undefined the hook returns the empty  *)
(* string and invokes no rule; and the seven rules applied in catalog order *)
(* to the empty string return the empty string as well.                     *)
C1_EmptyShortCircuit ==
    /\ Falsy(inputText) => (cleanedText = <<>> /\ applied = <<>> /\ ~threw)
    /\ LET r == RunRules(cleaningRules, <<>>, <<>>)
       IN  ~r.threw /\ r.value = <<>> /\ r.applied = RuleNames

\* The hook has run on null after a text was cleaned before.
C1_Witness ==
    inputText = Null /\ memoInput = Null /\ cleanedText = <<>> /\ applied = <<>>

(* C2: for a non-empty input the hook's result is rule 7 of rule 6 of ... of *)
(* rule 1 of the input, and the rules invoked are the seven of the catalog, *)
(* each once, in catalog order.                                             *)
C2_CatalogFold ==
    (IsString(inputText) /\ inputText # <<>>) =>
        /\ applied = <<"Remove box drawing", "Clean JSON arrays", "Remove pipe symbols",
                       "Fix indentation", "Remove terminal artifacts",
                       "Clean extra blank lines", "Trim whitespace">>
        /\ cleanedText = Composed(inputText)

\* A text went through the loop: the box line deleted, the frame stripped.
C2_Witness ==
    /\ inputText = <<"U2500", "\n", "U2502", "a">>
    /\ cleanedText = <<"a">>
    /\ Len(applied) = 7

NoArtifactLeft(text) ==
    /\ RemoveBoxDrawing(text) = text
    /\ RemovePipeSymbols(text) = text
    /\ RemoveTerminalArtifacts(text) = text

InAnsi(s, k) == \E i \in 1..k : AnsiEnd(s, i) # 0 /\ k <= AnsiEnd(s, i)

\* The code unit at index k is no box-drawing character, no white space and
\* no part of an SGR sequence.
NonTargeted(s, k) ==
    s[k] \notin BoxDrawingBlock /\ s[k] \notin WhiteSpace /\ ~InAnsi(s, k)

\* The code units of sub are found in t, in order.
RECURSIVE InOrder(_, _)
InOrder(sub, t) ==
    IF Len(sub) = 0 THEN TRUE
    ELSE IF Len(t) = 0 THEN FALSE
    ELSE IF sub[1] = t[1] THEN InOrder(Tail(sub), Tail(t))
    ELSE InOrder(sub, Tail(t))

\* sub is found in t as it stands.
Occurs(sub, t) ==
    \E j \in 0..(Len(t) - Len(sub)) : SubSeq(t, j + 1, j + Len(sub)) = sub

(* C4 as stated: every substring of the input made only of characters that *)
(* are no box-drawing character, no part of an SGR sequence and no white    *)
(* space has all its characters, in order, in the cleaned text.             *)
C4_Original ==
    IsString(inputText) =>
        \A i \in 1..Len(inputText) : \A j \in i..Len(inputText) :
            (\A k \in i..j : NonTargeted(inputText, k)) =>
                InOrder(SubSeq(inputText, i, j), cleanedText)

\* The input holds none of the other characters the rules remove or rewrite:
\* no pipe, no prompt marker, no colon (so no shell label), and no "[" but in
\* an SGR sequence (so no line of rule 2's pattern).
NoOtherTargets(s) ==
    \A k \in 1..Len(s) :
        /\ s[k] \notin {"|", "$", ">", ":"}
        /\ s[k] = "[" => InAnsi(s, k)

(* C4 amended: for every input without "|", "$", ">", ":" and without "["   *)
(* outside an SGR sequence, every substring made only of characters that    *)
(* are no box-drawing character, no part of an SGR sequence and no white    *)
(* space is found in the cleaned text as it stands.                         *)
C4_NonTargetedKept ==
    (IsString(inputText) /\ NoOtherTargets(inputText)) =>
        \A i \in 1..Len(inputText) : \A j \in i..Len(inputText) :
            (\A k \in i..j : NonTargeted(inputText, k)) =>
                Occurs(SubSeq(inputText, i, j), cleanedText)

\* A framed letter was cleaned: the frame and its space went, the letter stayed.
C4_Witness ==
    /\ inputText = <<"U2502", " ", "a", "U2502">>
    /\ NoOtherTargets(inputText)
    /\ cleanedText = <<"a">>

(* C5: for a string input the hook and each of the seven rules return a     *)
(* string and do not throw; a parse failure in rule 2 stays in the rule.    *)
C5_NeverRaises ==
    IsString(inputText) =>
        /\ ~threw
        /\ IsString(cleanedText)
        /\ \A n \in 1..Len(cleaningRules) :
              LET r == ApplyRule(cleaningRules[n], inputText)
              IN  ~r.threw /\ IsString(r.text)

\* A line of rule 2's pattern that is no JSON went through the catch block.
C5_Witness ==
    /\ inputText = <<"[", ",", "]">>
    /\ JsonMatchAt(inputText, 1).json = 1
    /\ ~JsonParse(CleanJsonText(inputText)).ok
    /\ ~threw
    /\ cleanedText = <<"[", ",", "]">>

-----------------------------------------------------------------------------
(* Properties of the statistics and of the catalog.                        *)

CountOf(s, c) == Cardinality({i \in 1..Len(s) : s[i] = c})

(* C6: the statistics of (original, cleaned) are: lines, the newlines of the *)
(* original plus one; characters, the length of the original; cleaned, the  *)
(* length of the original minus that of the cleaned text.  So lines >= 1    *)
(* and characters >= 0, and ("abc\ndef", "abcdef") gives 2, 7 and 1.        *)
C6_Stats ==
    /\ IsString(inputText) =>
          /\ stats = [lines      |-> CountOf(inputText, NL) + 1,
                      characters |-> Len(inputText),
                      cleaned    |-> Len(inputText) - Len(cleanedText)]
          /\ stats.lines >= 1
          /\ stats.characters >= 0
    /\ TextStats(<<"a", "b", "c", "\n", "d", "e", "f">>, <<"a", "b", "c", "d", "e", "f">>)
          = [lines |-> 2, characters |-> 7, cleaned |-> 1]

\* The statistics of a two-line text were computed.
C6_Witness ==
    /\ inputText = <<"|", "a", "\n", "a">>
    /\ stats.lines = 2
    /\ stats.characters = 4
    /\ stats.cleaned = 1

(* C7: the catalog is the seven rules, of unique names, in the order box     *)
(* drawing, JSON arrays, pipes, indentation, terminal artifacts, blank      *)
(* lines, trim, whatever was rendered before; so the cleaned text is a      *)
(* function of the input alone: the same for equal inputs.                  *)
C7_FixedCatalog ==
    /\ cleaningRules = <<"Remove box drawing", "Clean JSON arrays", "Remove pipe symbols",
                         "Fix indentation", "Remove terminal artifacts",
                         "Clean extra blank lines", "Trim whitespace">>
    /\ \A i, j \in 1..Len(cleaningRules) : cleaningRules[i] = cleaningRules[j] => i = j
    /\ IsString(inputText) =>
          cleanedText = IF inputText = <<>> THEN <<>> ELSE Composed(inputText)

\* The hook ran on a text after it ran on another one, the catalog rendered
\* in between.
C7_Witness ==
    /\ inputText = <<"|", "a">>
    /\ cleanedText = <<"a">>
    /\ Len(cleaningRules) = 7

-----------------------------------------------------------------------------
(* Properties of rule 1 and rule 3.                                        *)

TrimStart(s) == Drop(s, WsRunEnd(s, 1))
TrimEnd(s) == SubSeq(s, 1, WsRunStart(s, Len(s)) - 1)

\* A non-empty line of characters of the Unicode block Box Drawing.
IsBlockOnlyLine(line) ==
    Len(line) >= 1 /\ \A i \in 1..Len(line) : line[i] \in BoxDrawingBlock

(* C8: rule 1 deletes the lines that consist entirely of characters of the  *)
(* Unicode box-drawing block, the double-line forms included, and no other  *)
(* line.                                                                    *)
C8_BlockLinesDeleted ==
    IsString(inputText) =>
        SurvivingLines(inputText)
            = SelectSeq(Split(inputText, NL), LAMBDA l : ~IsBlockOnlyLine(l))

\* Line o is line l without one leading frame character and the white space
\* after it, and without one trailing frame character and the white space
\* before it.
FrameStripped(l, o) ==
    LET lead  == Len(l) >= 1 /\ l[1] \in BoxLeadClass
        trail == Len(l) >= 1 /\ l[Len(l)] \in BoxTrailClass
    IN  CASE lead /\ trail   -> o = Trim(SubSeq(l, 2, Len(l) - 1))
          [] lead /\ ~trail  -> o = TrimStart(Tail(l))
          [] ~lead /\ trail  -> o = TrimEnd(SubSeq(l, 1, Len(l) - 1))
          [] OTHER           -> o = l

(* C9: each surviving line leaves rule 1 without one leading frame character *)
(* and its adjacent white space and without one trailing frame character   *)
(* and its adjacent white space, and is otherwise as it was: a frame        *)
(* character, content, a frame character gives the content, and a line      *)
(* with box characters in its interior only is returned verbatim.           *)
C9_FrameStripped ==
    /\ IsString(inputText) =>
          LET surv == SurvivingLines(inputText)
              outs == IF surv = <<>> THEN <<>>
                      ELSE Split(RemoveBoxDrawing(inputText), NL)
          IN  /\ Len(outs) = Len(surv)
              /\ \A n \in 1..Len(surv) : FrameStripped(surv[n], outs[n])
    /\ RemoveBoxDrawing(<<"U2502", " ", "C", "o", "n", "t", "e", "n", "t", " ", "U2502">>)
          = <<"C", "o", "n", "t", "e", "n", "t">>
    /\ RemoveBoxDrawing(<<"a", " ", "U2500", " ", "b">>) = <<"a", " ", "U2500", " ", "b">>

\* A line with two leading frame characters went through rule 1: one is left.
C9_Witness ==
    /\ inputText = <<"U2502", "U2502", "a", "U2524">>
    /\ RemoveBoxDrawing(inputText) = <<"U2502", "a">>

\* Line o is line l without its leading pipe and the white space around it,
\* and without its trailing pipe and the white space around it.
PipeStripped(l, o) ==
    LET a     == WsRunEnd(l, 1) + 1
        z     == WsRunStart(l, Len(l)) - 1
        lead  == a <= Len(l) /\ l[a] = "|"
        trail == z >= 1 /\ l[z] = "|"
    IN  CASE lead /\ trail /\ a < z     -> o = Trim(SubSeq(l, a + 1, z - 1))
          [] lead /\ (~trail \/ a = z)  -> o = TrimStart(Drop(l, a))
          [] ~lead /\ trail             -> o = TrimEnd(SubSeq(l, 1, z - 1))
          [] OTHER                      -> o = l

(* C10: rule 3 removes on each line at most one leading "|" and at most one *)
(* trailing "|", each with the white space around it, and leaves the other  *)
(* pipes; "|  |  |" becomes "|"; the number of lines does not change.       *)
C10_PipesStripped ==
    /\ IsString(inputText) =>
          LET ins  == Split(inputText, NL)
              outs == Split(RemovePipeSymbols(inputText), NL)
          IN  /\ Len(outs) = Len(ins)
              /\ \A n \in 1..Len(ins) :
                    /\ PipeStripped(ins[n], outs[n])
                    /\ CountOf(outs[n], "|") >= CountOf(ins[n], "|") - 2
    /\ RemovePipeSymbols(<<"|", " ", " ", "|", " ", " ", "|">>) = <<"|">>

\* The line of three pipes went through rule 3 and through the pipeline.
C10_Witness ==
    /\ inputText = <<"|", " ", " ", "|", " ", " ", "|">>
    /\ RemovePipeSymbols(inputText) = <<"|">>
    /\ cleanedText = <<"|">>

-----------------------------------------------------------------------------
(* Properties of rule 5.                                                   *)

\* An SGR sequence stands at index i of s: the escape character, "[", digits
\* or semicolons, "m".
HasSgrAt(s, i) ==
    /\ i + 2 <= Len(s)
    /\ s[i] = ESC
    /\ s[i + 1] = "["
    /\ \E j \in (i + 2)..Len(s) :
          s[j] = "m" /\ \A k \in (i + 2)..(j - 1) : s[k] \in AnsiParamClass

(* C11: for every input string the output of rule 5 holds no SGR sequence:  *)
(* nowhere the escape character, "[", digits or semicolons, and "m".        *)
C11_NoSgrLeft ==
    IsString(inputText) =>
        LET out == RemoveTerminalArtifacts(inputText)
        IN  \A i \in 1..Len(out) : ~HasSgrAt(out, i)

\* The indices of s that hold "$" at a line start, and those that hold "$"
\* elsewhere.
DollarsAtLineStart(s) == {i \in 1..Len(s) : s[i] = "$" /\ AtLineStart(s, i)}
DollarsInside(s) == {i \in 1..Len(s) : s[i] = "$" /\ ~AtLineStart(s, i)}

(* C12 as stated: every "$" that is not at a line start of the input of     *)
(* rule 5 is still in its output: the output holds at least as many "$" as  *)
(* the input holds away from its line starts.                               *)
C12_Original ==
    IsString(inputText) =>
        CountOf(RemoveTerminalArtifacts(inputText), "$")
            >= Cardinality(DollarsInside(inputText))

(* C12 amended: rule 5 removes a "$" only when it is the first character of *)
(* a line once the SGR sequences of the input are deleted: the output holds *)
(* every "$" of the input but those at a line start of the input without    *)
(* its SGR sequences.                                                       *)
C12_DollarKept ==
    IsString(inputText) =>
        LET a == RemoveAnsi(inputText)
        IN  /\ CountOf(a, "$") = CountOf(inputText, "$")
            /\ CountOf(RemoveTerminalArtifacts(inputText), "$")
                  = Cardinality(DollarsInside(a))

\* Two "$" at a line start went through rule 5: the first is removed, the
\* second, which is at no line start, is kept.
C12_Witness ==
    /\ inputText = <<"$", "$", "a">>
    /\ DollarsInside(inputText) = {2}
    /\ RemoveTerminalArtifacts(inputText) = <<"$", "a">>

-----------------------------------------------------------------------------
(* Properties of rule 6, rule 7 and rule 4.                                *)

\* A line of white space only, the empty line included.
IsBlankLine(l) == \A i \in 1..Len(l) : l[i] \in WhiteSpace

\* No two lines in a row are blank.
NoBlankPair(lines) ==
    \A n \in 1..(Len(lines) - 1) : ~(IsBlankLine(lines[n]) /\ IsBlankLine(lines[n + 1]))

(* C13 as stated: rule 6 collapses every run of two or more blank or        *)
(* white-space-only lines, wherever it is in the text, to one blank line,   *)
(* so its output has no two blank lines in a row; and it leaves a text      *)
(* without such a run as it is.                                             *)
C13_Original ==
    IsString(inputText) =>
        /\ NoBlankPair(Split(CleanExtraBlankLines(inputText), NL))
        /\ NoBlankPair(Split(inputText, NL)) => CleanExtraBlankLines(inputText) = inputText

\* The code units of s that are no white space, in order.
NonWs(s) == SelectSeq(s, LAMBDA c : c \notin WhiteSpace)

\* The maximal white-space runs of s, in order: the one before the first
\* code unit that is no white space, those between two such code units, the
\* one after the last; a run may be empty.
RECURSIVE WsRunsOf(_)
WsRunsOf(s) ==
    IF \A i \in 1..Len(s) : s[i] \in WhiteSpace THEN <<s>>
    ELSE LET e == CHOOSE i \in 1..Len(s) :
                      s[i] \notin WhiteSpace /\ \A k \in 1..(i - 1) : s[k] \in WhiteSpace
         IN  <<SubSeq(s, 1, e - 1)>> \o WsRunsOf(Drop(s, e))

\* A white-space run as rule 6 leaves it: a run with three or more newlines
\* keeps what precedes its first newline and what follows its last one, with
\* two newlines in between; any other run is as it was.
CollapsedRun(w) ==
    LET nl == {k \in 1..Len(w) : w[k] = NL}
    IN  IF Cardinality(nl) >= 3
        THEN SubSeq(w, 1, (CHOOSE k \in nl : \A m \in nl : k <= m) - 1)
             \o <<NL, NL>>
             \o Drop(w, CHOOSE k \in nl : \A m \in nl : m <= k)
        ELSE w

\* outs are the runs ins as rule 6 leaves them.
RunsCollapsed(ins, outs) ==
    /\ Len(outs) = Len(ins)
    /\ \A n \in 1..Len(ins) :
          /\ outs[n] = CollapsedRun(ins[n])
          /\ CountOf(outs[n], NL) <= IF CountOf(ins[n], NL) >= 3 THEN 2 ELSE CountOf(ins[n], NL)

(* C13 amended: rule 6 replaces every run of white space that holds three   *)
(* or more newlines, from its first newline to its last, by two newlines,   *)
(* and changes nothing else: a run of two or more blank lines between two   *)
(* lines that are not blank becomes one blank line, a single blank line and *)
(* the blank lines at the start and the end of the text that hold fewer     *)
(* than three newlines are as they were.                                    *)
C13_RunsCollapsed ==
    IsString(inputText) =>
        /\ NonWs(CleanExtraBlankLines(inputText)) = NonWs(inputText)
        /\ RunsCollapsed(WsRunsOf(inputText), WsRunsOf(CleanExtraBlankLines(inputText)))

\* Three blank lines at the start of the text went through rule 6: two
\* newlines, and so two blank lines, are left.
C13_Witness ==
    /\ inputText = <<"\n", "\n", "\n", "a">>
    /\ CleanExtraBlankLines(inputText) = <<"\n", "\n", "a">>
    /\ ~NoBlankPair(Split(CleanExtraBlankLines(inputText), NL))

-----------------------------------------------------------------------------
(* Properties of the hook over time.                                       *)

\* What the hook returns is what its function returns for the input of the
\* last render.
ReturnsLatest ==
    /\ ~threw
    /\ cleanedText = CleanerBody(inputText, RuleNames).value
    /\ IsString(inputText) => memoInput = inputText

\* A render that leaves the input as it was leaves the returned value as it
\* was.
SameInputSameValue == inputText' = inputText => cleanedText' = cleanedText

(* C14: after any sequence of input changes the hook returns the cleaned    *)
(* text of the most recent input, never that of an earlier one, and a       *)
(* render with the input unchanged returns the value returned before.       *)
C14_LatestInput == [] ReturnsLatest /\ [][SameInputSameValue]_vars

\* The input changed three times; the hook holds the cleaned text of the
\* last one.
C14_Witness ==
    /\ inputText = <<"$", "a", "a">>
    /\ memoInput = inputText
    /\ cleanedText = <<"a", "a">>

-----------------------------------------------------------------------------
(* Properties of the cleaned text.                                         *)

\* Three newlines in a row start at index i of s.
ThreeNewlinesAt(s, i) == i + 2 <= Len(s) /\ \A k \in i..(i + 2) : s[k] = NL

(* C15: for every input the cleaned text holds no three newlines in a row.  *)
C15_NoThreeNewlines ==
    IsString(inputText) => \A i \in 1..Len(cleanedText) : ~ThreeNewlinesAt(cleanedText, i)

\* A text with two blank lines between two letters, one of them holding a
\* space, was cleaned: one blank line is left.
C15_Witness ==
    /\ inputText = <<"a", "\n", " ", "\n", "\n", "b">>
    /\ ThreeNewlinesAt(FixIndentation(inputText), 2)
    /\ cleanedText = <<"a", "\n", "\n", "b">>

\* The text the last rule is applied to: rules 1 to 6 composed by hand.
BeforeTrim(text) ==
    CleanExtraBlankLines(RemoveTerminalArtifacts(FixIndentation(
        RemovePipeSymbols(CleanJsonArrays(RemoveBoxDrawing(text)).text))))

\* o is p without the white space at its two ends and with everything in
\* between as it stands in p.
EndsTrimmed(p, o) ==
    /\ o = <<>> \/ (o[1] \notin WhiteSpace /\ o[Len(o)] \notin WhiteSpace)
    /\ \E i \in 0..Len(p) : \E j \in i..Len(p) :
          /\ o = SubSeq(p, i + 1, j)
          /\ \A k \in 1..i : p[k] \in WhiteSpace
          /\ \A k \in (j + 1)..Len(p) : p[k] \in WhiteSpace

(* C16: for every input the cleaned text has no white space at its start    *)
(* and none at its end, so trimming it changes nothing; and the last rule   *)
(* removes white space at the two ends of the whole text only: what lies    *)
(* between, the newlines between lines included, stays.                     *)
C16_OuterTrimOnly ==
    IsString(inputText) =>
        /\ Trim(cleanedText) = cleanedText
        /\ EndsTrimmed(BeforeTrim(inputText), cleanedText)

\* A text that starts with a blank line was cleaned: the newline at the
\* start went, the newline between the two lines stayed.
C16_Witness ==
    /\ inputText = <<"\n", "a", "\n", "a">>
    /\ BeforeTrim(inputText) = <<"\n", "a", "\n", "a">>
    /\ cleanedText = <<"a", "\n", "a">>

-----------------------------------------------------------------------------
(* Properties of rule 2.                                                   *)

\* The whole text is one line of the array pattern, without a label.
IsArrayLine(text) ==
    /\ text # <<>>
    /\ JsonMatchAt(text, 1) = [json |-> 1, end |-> Len(text) + 1]

\* out is the value parsed as JSON.stringify(value, null, 2) prints it, and
\* parses to that value again.
PrettyPrinted(parsed, out) ==
    /\ out = Stringify(JsonValue(parsed), 0)
    /\ JsonParse(out).ok
    /\ JsonValue(JsonParse(out)) = JsonValue(parsed)
    /\ parsed.t = "arr"
    /\ Len(parsed.items) > 0 =>
          /\ SubSeq(out, 1, 4) = <<"[", NL, SP, SP>>
          /\ SubSeq(out, Len(out) - 1, Len(out)) = <<NL, "]">>
    /\ Len(parsed.items) = 0 => out = <<"[", "]">>

\* Lines of the pattern and what rule 2 returns for them: the arrays of the
\* rule's tests, escaped and doubled quotes, and the label with and without
\* white space around it.
PrettyExamples ==
    /\ CleanJsonArrays(<<"\"", "[", "1", ",", " ", "2", ",", " ", "3", "]", "\"">>).text
          = <<"[", "\n", " ", " ", "1", ",", "\n", " ", " ", "2", ",", "\n",
              " ", " ", "3", "\n", "]">>
    /\ CleanJsonArrays(<<"\"", "[", "[", "1", ",", " ", "2", "]", ",", " ", "[", "3",
              ",", " ", "4", "]", "]", "\"">>).text
          = <<"[", "\n", " ", " ", "[", "\n", " ", " ", " ", " ", "1", ",",
              "\n", " ", " ", " ", " ", "2", "\n", " ", " ", "]", ",",
              "\n", " ", " ", "[", "\n", " ", " ", " ", " ", "3", ",",
              "\n", " ", " ", " ", " ", "4", "\n", " ", " ", "]", "\n",
              "]">>
    /\ CleanJsonArrays(<<"\"", "[", "]", "\"">>).text
          = <<"[", "]">>
    /\ CleanJsonArrays(<<"[", "\\", "\"", "a", "\\", "\"", ",", " ", "\"", "\"", "b",
              "\"", "\"", "]">>).text
          = <<"[", "\n", " ", " ", "\"", "a", "\"", ",", "\n", " ", " ",
              "\"", "b", "\"", "\n", "]">>
    /\ CleanJsonArrays(<<" ", " ", "t", "e", "m", "p", "l", "a", "t", "e", "_", "s",
              "u", "f", "f", "i", "x", "e", "s", " ", " ", "\"", "[",
              "1", "]", "\"">>).text
          = <<"t", "e", "m", "p", "l", "a", "t", "e", "_", "s", "u", "f",
              "f", "i", "x", "e", "s", ":", " ", "[", "\n", " ", " ",
              "1", "\n", "]">>
    /\ CleanJsonArrays(<<"t", "e", "m", "p", "l", "a", "t", "e", "_", "s", "u", "f",
              "f", "i", "x", "e", "s", "[", "]">>).text
          = <<"t", "e", "m", "p", "l", "a", "t", "e", "_", "s", "u", "f",
              "f", "i", "x", "e", "s", ":", " ", "[", "]">>

(* C17: a line of the array pattern whose content, without one layer of     *)
(* wrapping quotes and with \" and "" replaced by ", parses as JSON is       *)
(* replaced by the parsed value printed with an indentation of two spaces,  *)
(* after the trimmed label, a colon and a space when a label was matched    *)
(* and after nothing when none was.                                         *)
C17_PrettyPrinted ==
    /\ (IsString(inputText) /\ IsArrayLine(inputText)
            /\ JsonParse(CleanJsonText(inputText)).ok) =>
          PrettyPrinted(JsonParse(CleanJsonText(inputText)), CleanJsonArrays(inputText).text)
    /\ PrettyExamples

\* A line holding an array of one number went through rule 2.
C17_Witness ==
    /\ inputText = <<"[", "1", "]">>
    /\ IsArrayLine(inputText)
    /\ CleanJsonArrays(inputText).text = <<"[", "\n", " ", " ", "1", "\n", "]">>

\* The whole text is one line of the array pattern whose content is no JSON.
IsBrokenArrayLine(text) ==
    IsArrayLine(text) /\ ~JsonParse(CleanJsonText(text)).ok

\* The code units of s that are neither a quote nor a backslash, in order.
NoQuoting(s) == SelectSeq(s, LAMBDA c : c \notin {QUOTE, BACKSLASH})

\* s holds "[" and "]", a quote before "[", a quote after "]".
HasBrackets(s) == Occurs(<<"[">>, s) /\ Occurs(<<"]">>, s)
HasQuoteAtBracket(s) == Occurs(<<QUOTE, "[">>, s) \/ Occurs(<<"]", QUOTE>>, s)

(* C18 as stated: for a line of the array pattern whose content does not    *)
(* parse, rule 2 returns the match with its brackets, with no backslash     *)
(* before a quote, and with no quote directly before "[" or after "]".      *)
C18_Original ==
    (IsString(inputText) /\ IsBrokenArrayLine(inputText)) =>
        LET out == CleanJsonArrays(inputText).text
        IN  /\ HasBrackets(out)
            /\ ~Occurs(<<BACKSLASH, QUOTE>>, out)
            /\ ~HasQuoteAtBracket(out)

\* out is what the four passes of the catch block leave of match.
FallbackOf(match, out) ==
    /\ NoQuoting(out) = NoQuoting(match)
    /\ HasBrackets(out)
    /\ Len(out) <= Len(match)
    /\ Occurs(<<BACKSLASH, QUOTE>>, out) => Occurs(<<BACKSLASH, BACKSLASH, QUOTE>>, match)
    /\ ~Occurs(<<QUOTE, QUOTE>>,
               ReplacePair(ReplacePair(match, BACKSLASH, QUOTE, <<QUOTE>>),
                           QUOTE, QUOTE, <<QUOTE>>))
          => ~HasQuoteAtBracket(out)

\* The fallback on '"[\\"broken\\", syntax,]"', which JSON.parse rejects.
BrokenExample ==
    CleanJsonArrays(<<"\"", "[", "\\", "\"", "b", "r", "o", "k", "e", "n", "\\", "\"",
                      ",", " ", "s", "y", "n", "t", "a", "x", ",", "]", "\"">>).text
        = <<"[", "\"", "b", "r", "o", "k", "e", "n", "\"", ",", " ",
            "s", "y", "n", "t", "a", "x", ",", "]">>

(* C18 amended: for a line of the array pattern whose content does not      *)
(* parse, rule 2 returns the match after four passes, \" to ", "" to ",     *)
(* "[ to [ and ]" to ], each made once from left to right: every code unit  *)
(* that is no quote and no backslash stays, the brackets among them; a      *)
(* backslash before a quote is left only where the match holds a backslash  *)
(* before \"; a quote before "[" or after "]" is left only where the first  *)
(* two passes leave two quotes in a row.  The test's line                   *)
(* "[\"broken\", syntax,]" gives ["broken", syntax,].                       *)
C18_Fallback ==
    /\ (IsString(inputText) /\ IsBrokenArrayLine(inputText)) =>
          FallbackOf(inputText, CleanJsonArrays(inputText).text)
    /\ BrokenExample

\* A line with a backslash before an escaped quote went through the catch
\* block: the backslash-quote pair it leaves is in the result.
C18_Witness ==
    /\ inputText = <<"[", "\\", "\\", "\"", "]">>
    /\ IsBrokenArrayLine(inputText)
    /\ CleanJsonArrays(inputText).text = <<"[", "\\", "\"", "]">>

-----------------------------------------------------------------------------
(* Properties of rule 4 and of the order within rule 5.                    *)

\* The white-space runs of a line as rule 4 leaves them: none at the two
\* ends, one space for every other run that is not empty.
FixedRuns(runs) ==
    [n \in 1..Len(runs) |->
        IF n = 1 \/ n = Len(runs) \/ runs[n] = <<>> THEN <<>> ELSE <<SP>>]

\* Line o is line l with every white-space run replaced by one space and
\* without white space at its ends.
LineFixed(l, o) ==
    /\ NonWs(o) = NonWs(l)
    /\ WsRunsOf(o) = FixedRuns(WsRunsOf(l))
    /\ o = <<>> \/ (o[1] \notin WhiteSpace /\ o[Len(o)] \notin WhiteSpace)
    /\ \A i \in 1..Len(o) : o[i] \in WhiteSpace => o[i] = SP
    /\ \A i \in 1..(Len(o) - 1) : ~(o[i] \in WhiteSpace /\ o[i + 1] \in WhiteSpace)

\* The lines outs are the lines ins as rule 4 leaves them, one for one.
LinesFixed(ins, outs) ==
    /\ Len(outs) = Len(ins)
    /\ \A n \in 1..Len(ins) : LineFixed(ins[n], outs[n])

(* C19: rule 4 maps each line of its input to that line with every run of   *)
(* white space replaced by one space and without white space at its ends;   *)
(* it merges and splits no line, so the output has as many newlines as the  *)
(* input and none of its lines has white space at an end or twice in a row. *)
C19_LinesFixed ==
    IsString(inputText) =>
        /\ LinesFixed(Split(inputText, NL), Split(FixIndentation(inputText), NL))
        /\ CountOf(FixIndentation(inputText), NL) = CountOf(inputText, NL)

\* Two lines with a tab and a space in a row, a carriage return at a line
\* end and a tab at a line start went through rule 4.
C19_Witness ==
    /\ inputText = <<"a", "\t", " ", "b", "\r", "\n", "\t", "c">>
    /\ FixIndentation(inputText) = <<"a", " ", "b", "\n", "c">>


\* The elements of s at the indices in K, in their order.
KeepAt(s, K) ==
    LET idx == SelectSeq([i \in 1..Len(s) |-> i], LAMBDA i : i \in K)
    IN  [n \in 1..Len(idx) |-> s[idx[n]]]

\* The indices of s that a prompt marker at a line start of s covers together
\* with the white space after it.
PromptSpans(s) ==
    {k \in 1..Len(s) :
        \E i \in 1..k : /\ AtLineStart(s, i)
                        /\ s[i] \in PromptClass
                        /\ k <= WsRunEnd(s, i + 1)}

\* The indices of s that a shell label at a line start of s covers together
\* with its colon and the white space after it.
LabelSpans(s) ==
    {k \in 1..Len(s) :
        \E i \in 1..k : /\ AtLineStart(s, i)
                        /\ LabelEnd(s, i) # 0
                        /\ k <= WsRunEnd(s, LabelEnd(s, i) + 1)}

\* out is p without the shell labels at the line starts of p, where p is a
\* without the prompt markers at the line starts of a.
PassesInOrder(a, out) ==
    LET WithoutLabels(p) == out = KeepAt(p, (1..Len(p)) \ LabelSpans(p))
    IN  WithoutLabels(KeepAt(a, (1..Len(a)) \ PromptSpans(a)))

\* No prompt marker stands at a line start of s.
NoPromptAtLineStart(s) ==
    \A i \in 1..Len(s) : AtLineStart(s, i) => s[i] \notin PromptClass

\* Worked examples of rule 5, each an input with its output.
ArtifactExamples ==
    { \* '$ \x1b[32mbash:\x1b[0m command' yields 'command'
      << <<"$", " ", "ESC", "[", "3", "2", "m", "b", "a", "s", "h", ":",
           "ESC", "[", "0", "m", " ", "c", "o", "m", "m", "a", "n", "d">>,
         <<"c", "o", "m", "m", "a", "n", "d">> >>,
      \* a prompt behind an SGR sequence
      << <<"ESC", "[", "1", "m", ">", " ", "a">>, <<"a">> >>,
      \* a label behind an SGR sequence, in upper case
      << <<"ESC", "[", "m", "C", "M", "D", ":", " ", "a">>, <<"a">> >>,
      \* a label behind a prompt, in mixed case
      << <<"$", " ", "P", "o", "w", "e", "r", "S", "h", "e", "l", "l", ":", "a">>,
         <<"a">> >>,
      << <<">", "B", "a", "s", "h", ":", "\n", "s", "H", ":", "a">>, <<"a">> >>,
      \* a prompt behind a label is not at a line start when prompts go
      << <<"s", "h", ":", "$", "a">>, <<"$", "a">> >>,
      \* a label inside a line stays
      << <<"a", " ", "s", "h", ":", "a">>, <<"a", " ", "s", "h", ":", "a">> >> }

\* Rule 5 gives each worked example its output, and keeps the second of two
\* prompt markers.
ArtifactExamplesHold ==
    /\ \A e \in ArtifactExamples : RemoveTerminalArtifacts(e[1]) = e[2]
    /\ RemoveTerminalArtifacts(<<"$", "$", " ", "a">>) = <<"$", " ", "a">>

(* C20 as stated: rule 5 removes SGR sequences, then prompts, then shell    *)
(* labels, each on the result of the previous one, and a prompt marker that *)
(* is at a line start only after an SGR sequence or a prompt before it has  *)
(* been deleted is removed as well: after the prompt pass no prompt marker  *)
(* is left at a line start.                                                 *)
C20_Original ==
    IsString(inputText) =>
        /\ PassesInOrder(RemoveAnsi(inputText), RemoveTerminalArtifacts(inputText))
        /\ NoPromptAtLineStart(RemovePrompts(RemoveAnsi(inputText)))

(* C20: rule 5 removes SGR sequences, then the prompt markers at the line   *)
(* starts of that result with the white space after them, then the shell    *)
(* labels (in any letter case) at the line starts of that result with their *)
(* white space; so a prompt marker behind an SGR sequence and a shell label *)
(* behind an SGR sequence or a prompt are removed, while a prompt marker    *)
(* behind another prompt marker, which the same pass exposes, is kept; the  *)
(* line '$ <SGR>bash:<SGR> command' yields 'command'.                       *)
C20_InOrder ==
    /\ IsString(inputText) =>
          PassesInOrder(RemoveAnsi(inputText), RemoveTerminalArtifacts(inputText))
    /\ ArtifactExamplesHold

\* A shell label that the prompt pass brought to the line start was removed.
C20_Witness ==
    /\ inputText = <<"$", "s", "h", ":">>
    /\ RemovePrompts(RemoveAnsi(inputText)) = <<"s", "h", ":">>
    /\ RemoveTerminalArtifacts(inputText) = <<>>

-----------------------------------------------------------------------------
(* Properties of the whole pipeline on particular kinds of input.          *)

\* Every character of s is a space, a tab or a newline.
OnlyBlanks(s) == \A i \in 1..Len(s) : s[i] \in {SP, TAB, NL}

\* The text '   \n\t\t\n   \n   ' is cleaned to the empty string.
BlankExample ==
    Composed(<<" ", " ", " ", "\n", "\t", "\t", "\n", " ", " ", " ", "\n",
               " ", " ", " ">>) = <<>>

(* C21: an input that consists only of spaces, tabs and newlines is cleaned *)
(* to the empty string.                                                     *)
C21_BlankToEmpty ==
    /\ (IsString(inputText) /\ OnlyBlanks(inputText)) => cleanedText = <<>>
    /\ BlankExample

\* A text of a space, a tab, a newline and a space was cleaned.
C21_Witness ==
    /\ inputText = <<" ", "\t", "\n", " ">>
    /\ OnlyBlanks(inputText)
    /\ cleanedText = <<>>


\* Every line of s begins with a pipe and ends with a pipe.
TableLike(s) ==
    \A n \in 1..Len(Split(s, NL)) :
        LET EndsInPipes(l) == l # <<>> /\ l[1] = "|" /\ l[Len(l)] = "|"
        IN  EndsInPipes(Split(s, NL)[n])

\* No line of t starts or ends with a pipe.
NoPipeAtLineEnds(t) ==
    \A n \in 1..Len(Split(t, NL)) :
        LET Free(l) == l = <<>> \/ (l[1] # "|" /\ l[Len(l)] # "|")
        IN  Free(Split(t, NL)[n])

\* The table line l, its SGR sequences deleted, holds between its first and
\* its last pipe nothing but white space, or a text that begins with no pipe,
\* prompt marker or shell label and ends with no pipe.
OuterCellsFilled(l) ==
    LET Filled(inner) ==
            \/ inner = <<>>
            \/ /\ inner[1] \notin ({"|"} \cup PromptClass)
               /\ LabelEnd(inner, 1) = 0
               /\ inner[Len(inner)] # "|"
        Between(b) == Filled(Trim(SubSeq(b, 2, Len(b) - 1)))
    IN  Between(RemoveAnsi(l))

\* Tables with SGR sequences in their cells, each with its cleaned text.
TableExamples ==
    { << <<"|", " ", "ESC", "[", "1", "m", "a", "ESC", "[", "0", "m", " ", " ",
           "|", " ", "a", " ", "|">>,
         <<"a", " ", "|", " ", "a">> >>,
      << <<"|", "a", "|", "ESC", "[", "3", "2", "m", "a", "ESC", "[", "0", "m", "|">>,
         <<"a", "|", "a">> >>,
      << <<"|", "ESC", "[", "m", "|">>, <<>> >>,
      << <<"|", " ", "ESC", "[", "m", " ", "|", "\n", "|", "a", "|">>, <<"a">> >> }

\* Each table of the examples has its outer cells filled and is cleaned to
\* the text beside it; a table with an empty first cell keeps a pipe.
TableExamplesHold ==
    /\ \A e \in TableExamples :
          /\ TableLike(e[1])
          /\ \A n \in 1..Len(Split(e[1], NL)) : OuterCellsFilled(Split(e[1], NL)[n])
          /\ Composed(e[1]) = e[2]
          /\ NoPipeAtLineEnds(e[2])
    /\ Composed(<<"|", " ", "|", " ", "a", " ", "|">>) = <<"|", " ", "a">>

(* C22 as stated: when every line of the input begins with a pipe and ends  *)
(* with a pipe, no line of the cleaned text starts or ends with a pipe.     *)
C22_Original ==
    (IsString(inputText) /\ TableLike(inputText)) => NoPipeAtLineEnds(cleanedText)

(* C22: when every line of the input begins with a pipe and ends with a     *)
(* pipe and, with its SGR sequences deleted, holds between these two pipes  *)
(* only white space or a text that begins with no pipe, prompt marker or    *)
(* shell label and ends with no pipe, then no line of the cleaned text      *)
(* starts or ends with a pipe. An empty first cell can leave a pipe at the  *)
(* line start: '| | a |' is cleaned to '| a'.                               *)
C22_OuterCellsFilled ==
    /\ (/\ IsString(inputText)
        /\ TableLike(inputText)
        /\ \A n \in 1..Len(Split(inputText, NL)) :
              OuterCellsFilled(Split(inputText, NL)[n]))
          => NoPipeAtLineEnds(cleanedText)
    /\ TableExamplesHold

\* A table line with one cell lost its two pipes.
C22_Witness ==
    /\ inputText = <<"|", "a", " ", "|">>
    /\ TableLike(inputText)
    /\ OuterCellsFilled(inputText)
    /\ cleanedText = <<"a">>


(* C23: no line of the cleaned text consists entirely of box-drawing        *)
(* characters.                                                              *)
C23_NoBoxOnlyLine ==
    IsString(inputText) =>
        \A n \in 1..Len(Split(cleanedText, NL)) :
            ~IsBlockOnlyLine(Split(cleanedText, NL)[n])


\* A reordered rule list without 'Fix indentation': slice(4) for slice(3).
reorderedRulesSliceFour ==
    <<cleaningRules[3], cleaningRules[1]>>
        \o SubSeq(cleaningRules, 5, Len(cleaningRules))
        \o <<cleaningRules[2]>>

\* [cleaningRules[2], cleaningRules[0], ...cleaningRules.slice(3),
\*  cleaningRules[1]]: pipe removal, box drawing, rules 4 to 7, JSON cleaning.
reorderedRules ==
    <<cleaningRules[3], cleaningRules[1]>>
        \o SubSeq(cleaningRules, 4, Len(cleaningRules))
        \o <<cleaningRules[2]>>

\* reorderedRules.reduce((text, rule) => rule.apply(text), input)
ReorderedResult(input) == RunRules(reorderedRules, input, <<>>).value

\* s holds no character of the box-drawing block.
NoBoxDrawing(s) == \A i \in 1..Len(s) : s[i] \notin BoxDrawingBlock

\* The catalog order on the test's line in pipes and on '[1]'.
CatalogExamples ==
    /\ Composed(<<" ", " ", "|", " ", "a", " ", "|", " ", " ">>) = <<"a">>
    /\ Composed(<<"[", "1", "]">>) = <<"[", "\n", "1", "\n", "]">>

(* C24 as stated: for an input without box-drawing characters the rules in  *)
(* the order pipe removal, box drawing, indentation, terminal artifacts,    *)
(* blank lines, trim, JSON cleaning give the cleaned text of the catalog    *)
(* order.                                                                   *)
C24_Original ==
    (IsString(inputText) /\ NoBoxDrawing(inputText))
        => ReorderedResult(inputText) = cleanedText

(* C24: for an input without box-drawing characters and without '[' the     *)
(* rules in the order pipe removal, box drawing, indentation, terminal      *)
(* artifacts, blank lines, trim, JSON cleaning give the cleaned text of the *)
(* catalog order; '  | a |  ' gives 'a' in both orders. With a '[' the two  *)
(* orders differ: '[1]' keeps its two-space indentation when JSON cleaning  *)
(* runs last (the two worked examples are evaluated while the input is      *)
(* empty).                                                                  *)
C24_ReorderedSame ==
    /\ (/\ IsString(inputText)
        /\ NoBoxDrawing(inputText)
        /\ \A i \in 1..Len(inputText) : inputText[i] # "[")
          => ReorderedResult(inputText) = cleanedText
    /\ inputText = <<>> =>
          /\ ReorderedResult(<<" ", " ", "|", " ", "a", " ", "|", " ", " ">>) = <<"a">>
          /\ ReorderedResult(<<"[", "1", "]">>) = <<"[", "\n", " ", " ", "1", "\n", "]">>
    /\ CatalogExamples

\* A line in pipes with two spaces inside went through both orders.
C24_Witness ==
    /\ inputText = <<"|", " ", " ", "a">>
    /\ NoBoxDrawing(inputText)
    /\ ReorderedResult(inputText) = <<"a">>
    /\ cleanedText = <<"a">>


\* The text before the first rule and after each rule of the list.
RECURSIVE StageTexts(_, _)
StageTexts(rules, text) ==
    IF Len(rules) = 0 THEN <<text>>
    ELSE <<text>> \o StageTexts(Tail(rules), ApplyRule(Head(rules), text).text)

\* Along the stages st no rule but 'Clean JSON arrays' returns a text longer
\* than the one it was given.
OnlyJsonLengthens(st) ==
    \A n \in 1..Len(cleaningRules) :
        cleaningRules[n] # "Clean JSON arrays" => Len(st[n + 1]) <= Len(st[n])

\* Along the stages st no rule returns a text longer than the one it was
\* given, and the last stage is the cleaned text.
NoRuleLengthens(st) ==
    /\ \A n \in 1..Len(cleaningRules) : Len(st[n + 1]) <= Len(st[n])
    /\ st[Len(st)] = cleanedText

\* Cleaning '[1]' adds two characters.
JsonLengthens == TextStats(<<"[", "1", "]">>, Composed(<<"[", "1", "]">>)).cleaned = -2

(* C25: for an input without '[' no rule lengthens the text, so the cleaned *)
(* text is at most as long as the input and charactersRemoved is at least   *)
(* 0; for any input, only rule 2 can return a text longer than its input,   *)
(* as it does for '[1]'.                                                    *)
C25_NoRuleLengthens ==
    /\ IsString(inputText) =>
          LET Stages(st) ==
                  /\ OnlyJsonLengthens(st)
                  /\ (\A i \in 1..Len(inputText) : inputText[i] # "[") =>
                        /\ NoRuleLengthens(st)
                        /\ Len(cleanedText) <= Len(inputText)
                        /\ stats.cleaned = Len(inputText) - Len(cleanedText)
                        /\ stats.cleaned >= 0
          IN  Stages(StageTexts(cleaningRules, inputText))
    /\ JsonLengthens

\* A text without '[' lost its pipe and a space: two characters removed.
C25_Witness ==
    /\ inputText = <<"|", " ", "a", "a">>
    /\ cleanedText = <<"a", "a">>
    /\ stats.cleaned = 2


\* Line l has no white space at its ends and no two white-space characters
\* in a row.
LineNormalized(l) ==
    /\ l = <<>> \/ (l[1] \notin WhiteSpace /\ l[Len(l)] \notin WhiteSpace)
    /\ \A i \in 1..(Len(l) - 1) : ~(l[i] \in WhiteSpace /\ l[i + 1] \in WhiteSpace)

(* C26: every line of the cleaned text has no leading white space, no       *)
(* trailing white space and no run of two or more white-space characters.   *)
C26_LinesNormalized ==
    IsString(inputText) =>
        \A n \in 1..Len(Split(cleanedText, NL)) :
            LineNormalized(Split(cleanedText, NL)[n])

-----------------------------------------------------------------------------
(* Rule 2 on a line that is a JSON array already.                          *)

\* r is the parse of an array whose elements are strings and numbers.
FlatArray(r) ==
    /\ r.ok
    /\ r.t = "arr"
    /\ \A n \in 1..Len(r.items) : r.items[n].t \in {"str", "num"}

\* s is one line without backslash that starts with '[' and ends with ']'.
PlainArrayLine(s) ==
    /\ s # <<>>
    /\ s[1] = "["
    /\ s[Len(s)] = "]"
    /\ \A i \in 1..Len(s) : s[i] \notin (LineTerminators \cup {BACKSLASH})

(* C27: for a one-line input that is a valid JSON array of strings and      *)
(* numbers, without wrapping quotes and backslashes, the output of rule 2   *)
(* parses as JSON to the value the input parses to.                         *)
C27_SameValue ==
    (IsString(inputText) /\ PlainArrayLine(inputText) /\ FlatArray(JsonParse(inputText)))
        => LET Same(out) ==
                   /\ JsonParse(out).ok
                   /\ JsonValue(JsonParse(out)) = JsonValue(JsonParse(inputText))
           IN  Same(CleanJsonArrays(inputText).text)

====
